---- MODULE Spec2Model ----
(***************************************************************************)
(* A model of the ASN.1 -> proto3 translator of libasn1print:              *)
(*   asn1printproto.c   the lowering of ASN.1 expressions to proto         *)
(*                      messages and enums (asn1print_expr_proto)          *)
(*   asn1protooutput.c  the emission of the proto model as text            *)
(*                      (proto_print_msg) and the name rewriters           *)
(* C strings are sequences of one-character strings; NUL is the empty      *)
(* string.  Printed text is a TLA+ string built with \o.                   *)
(***************************************************************************)
EXTENDS Integers, Sequences, FiniteSets, TLC

VARIABLES
    input,      \* the expressions of the module handed to the lowerer so far
    message,    \* proto_msg_t *message[] with its count `messages`
    protoenum,  \* proto_enum_t *protoenum[] with its count `enums`
    ret,        \* the return value of the last asn1print_expr_proto call
    phase,      \* "lowering" until proto_print_msg has run, then "emitted"
    out,        \* per print method: what reached stdout and the buffer
    module,     \* the proto_module_t handed to proto_print_msg
    call,       \* name-rewriter harness: the function called and its arguments
    frame       \* name-rewriter harness: the local variables of the call

vars == <<input, message, protoenum, ret, phase, out, module, call, frame>>

(***************************************************************************)
(* Bounds of the model.                                                    *)
(***************************************************************************)
MaxLen == 3          \* longest enumerated identifier of the rewriter harness
MaxOverrun == 2      \* how far a scan past the terminator is followed
MaxExprs == 2        \* expressions lowered before emission

(***************************************************************************)
(* Characters (ctype.h as used by the rewriters).                          *)
(***************************************************************************)
NUL == ""

\* the null pointer to a structure
NULL == [null |-> TRUE]

\* the null pointer where a C string is expected
NULLSTR == <<"(null)">>

LowerLetters ==
    <<"a","b","c","d","e","f","g","h","i","j","k","l","m",
      "n","o","p","q","r","s","t","u","v","w","x","y","z">>

UpperLetters ==
    <<"A","B","C","D","E","F","G","H","I","J","K","L","M",
      "N","O","P","Q","R","S","T","U","V","W","X","Y","Z">>

IsUpper(c) == \E k \in 1..26 : UpperLetters[k] = c

IsLower(c) == \E k \in 1..26 : LowerLetters[k] = c

toupper(c) ==
    IF IsLower(c) THEN UpperLetters[CHOOSE k \in 1..26 : LowerLetters[k] = c]
    ELSE c

tolower(c) ==
    IF IsUpper(c) THEN LowerLetters[CHOOSE k \in 1..26 : UpperLetters[k] = c]
    ELSE c

RECURSIVE Str(_)
\* the text of a character sequence
Str(s) == IF s = <<>> THEN "" ELSE s[1] \o Str(Tail(s))

RECURSIVE CStr(_)
\* the C string held in a buffer: the characters before the first NUL
CStr(buf) ==
    IF buf = <<>> \/ buf[1] = NUL THEN <<>>
    ELSE <<buf[1]>> \o CStr(Tail(buf))

\* mixedCase[i] for a C string of strlen Len(s): the terminator at i = Len(s),
\* and beyond it whatever the adjacent memory holds (g)
MemRead(s, i, g) ==
    IF i < Len(s) THEN s[i + 1] ELSE IF i = Len(s) THEN NUL ELSE g

\* buf[idx] = c; a store at or beyond the end of the modelled memory is dropped
\* (the frame records it as out of bounds)
Write(buf, idx, c) ==
    IF idx >= 0 /\ idx < Len(buf) THEN [buf EXCEPT ![idx + 1] = c] ELSE buf

(***************************************************************************)
(* toPascalCaseDup (asn1protooutput.c:86-115).                             *)
(***************************************************************************)
IsPascalSeparator(c) == c = "-" \/ c = "&" \/ c = "_"

PascalBranchNoRun(c, i, lastWasUpper) ==
    IF IsPascalSeparator(c) THEN "separator"
    ELSE IF i = 0 THEN "first"
    ELSE IF IsUpper(c) THEN "upper"
    ELSE "other"

\* which arm of the if/else chain of the loop body is taken
PascalBranch(c, i, lastWasUpper) ==
    IF IsPascalSeparator(c) THEN "separator"
    ELSE IF i = 0 THEN "first"
    ELSE IF IsUpper(c) /\ lastWasUpper = 1 THEN "lower"
    ELSE IF IsUpper(c) THEN "upper"
    ELSE "other"

PascalStart(mixedCase) ==
    [ i |-> 0, removed |-> 0, lastWasUpper |-> 0,
      pascalCaseDup |-> mixedCase \o <<NUL>>,     \* strdup
      cap |-> Len(mixedCase) + 1,
      oob |-> FALSE, status |-> "loop" ]

\* one evaluation of the loop condition and, when it holds, of the loop body;
\* g0 and g1 are what memory beyond the terminator holds at i and i+1
PascalStep(f, mixedCase, g0, g1) ==
    LET c   == MemRead(mixedCase, f.i, g0)
        c1  == MemRead(mixedCase, f.i + 1, g1)
        idx == f.i - f.removed
        b   == PascalBranch(c, f.i, f.lastWasUpper)
        st  == [f EXCEPT !.oob = @ \/ idx >= f.cap]
    IN  IF c = NUL
        THEN [st EXCEPT !.pascalCaseDup = Write(@, idx, NUL),
                        !.status = "returned"]
        ELSE CASE b = "separator" ->
                    [st EXCEPT !.pascalCaseDup = Write(@, idx, toupper(c1)),
                               !.i = @ + 2, !.removed = @ + 1,
                               !.lastWasUpper = 1]
               [] b = "first" ->
                    [st EXCEPT !.pascalCaseDup = Write(@, f.i, toupper(c)),
                               !.i = @ + 1, !.lastWasUpper = 1]
               [] b = "lower" ->
                    [st EXCEPT !.pascalCaseDup = Write(@, idx, tolower(c)),
                               !.i = @ + 1]
               [] b = "upper" ->
                    [st EXCEPT !.pascalCaseDup = Write(@, idx, c),
                               !.i = @ + 1, !.lastWasUpper = 1]
               [] OTHER ->
                    [st EXCEPT !.pascalCaseDup = Write(@, idx, c),
                               !.i = @ + 1, !.lastWasUpper = 0]

RECURSIVE PascalRun(_, _)
PascalRun(f, mixedCase) ==
    IF f.status = "returned" THEN CStr(f.pascalCaseDup)
    ELSE PascalRun(PascalStep(f, mixedCase, NUL, NUL), mixedCase)

\* the value returned for an identifier whose scan stays inside the string
toPascalCaseDup(mixedCase) == PascalRun(PascalStart(mixedCase), mixedCase)

(***************************************************************************)
(* toSnakeCaseDup (asn1protooutput.c:117-160).                             *)
(***************************************************************************)
SNAKECASE_LOWER == "SNAKECASE_LOWER"

SNAKECASE_UPPER == "SNAKECASE_UPPER"

\* realloc(buf, n): the block is n bytes; bytes gained are indeterminate ("?")
Realloc(buf, n) ==
    IF n <= Len(buf) THEN SubSeq(buf, 1, n)
    ELSE buf \o [k \in 1..(n - Len(buf)) |-> "?"]

\* buf[idx] = c where the store may land beyond the block (the bytes that
\* follow the block are kept so that the effect of the store is visible)
Store(buf, idx, c) ==
    IF idx < 0 THEN buf
    ELSE IF idx < Len(buf) THEN [buf EXCEPT ![idx + 1] = c]
    ELSE (buf \o [k \in 1..(idx - Len(buf)) |-> "?"]) \o <<c>>

\* which arm of the if/else chain of the loop body is taken
SnakeBranch(c, i, tocase, lastChanged) ==
    IF i = 0 /\ c = "&" THEN "amp"
    ELSE IF tocase = SNAKECASE_LOWER /\ i > 0 /\ IsUpper(c) /\ lastChanged = 0
         THEN "insert_lower"
    ELSE IF tocase = SNAKECASE_UPPER /\ IsLower(c) THEN "to_upper"
    ELSE IF tocase = SNAKECASE_UPPER /\ i > 0 /\ IsUpper(c) THEN "insert_upper"
    ELSE IF tocase = SNAKECASE_LOWER /\ IsUpper(c) THEN "to_lower"
    ELSE IF c = "-" \/ c = "." THEN "dash"
    ELSE "other"

SnakeStart(mixedCase) ==
    [ i |-> 0, added |-> 0, lastChanged |-> 0,
      snakeCase |-> mixedCase \o <<NUL>>,          \* strdup
      cap |-> Len(mixedCase) + 1,
      origlen |-> Len(mixedCase),
      oob |-> FALSE, status |-> "loop" ]

\* one evaluation of the loop condition and, when it holds, of the loop body
SnakeStep(f, mixedCase, tocase) ==
    LET c   == MemRead(mixedCase, f.i, NUL)
        idx == f.i + f.added
        b   == SnakeBranch(c, f.i, tocase, f.lastChanged)
        n   == f.origlen + f.added + 1
    IN  IF c = NUL
        THEN [f EXCEPT !.snakeCase = Store(@, idx, NUL),
                       !.oob = @ \/ idx >= f.cap,
                       !.status = "returned"]
        ELSE CASE b = "amp" ->
                    [f EXCEPT !.added = -1, !.lastChanged = 1, !.i = @ + 1]
               [] b \in {"insert_lower", "insert_upper"} ->
                    [f EXCEPT !.snakeCase =
                                  Store(Store(Realloc(@, n), idx, "_"), idx + 1,
                                        IF b = "insert_lower" THEN tolower(c)
                                        ELSE toupper(c)),
                              !.cap = n,
                              !.oob = @ \/ idx + 1 >= n,
                              !.added = @ + 1, !.lastChanged = 1, !.i = @ + 1]
               [] b \in {"to_upper", "to_lower", "dash"} ->
                    [f EXCEPT !.snakeCase =
                                  Store(@, idx,
                                        IF b = "to_upper" THEN toupper(c)
                                        ELSE IF b = "to_lower" THEN tolower(c)
                                        ELSE "_"),
                              !.oob = @ \/ idx >= f.cap,
                              !.lastChanged = 1, !.i = @ + 1]
               [] OTHER ->
                    [f EXCEPT !.snakeCase = Store(@, idx, c),
                              !.oob = @ \/ idx >= f.cap,
                              !.lastChanged = 0, !.i = @ + 1]

\* what a store beyond the allocated block can lead to: the byte lands in the
\* allocator's slack and the call goes on, or the heap is damaged and the
\* process is stopped
StoreOutcomes(before, after) ==
    IF after.oob /\ ~before.oob
    THEN {after, [after EXCEPT !.status = "aborted"]}
    ELSE {after}

RECURSIVE SnakeRun(_, _, _)
SnakeRun(f, mixedCase, tocase) ==
    IF f.status = "returned" THEN CStr(f.snakeCase)
    ELSE SnakeRun(SnakeStep(f, mixedCase, tocase), mixedCase, tocase)

\* the value returned when the call completes
toSnakeCaseDup(mixedCase, tocase) ==
    SnakeRun(SnakeStart(mixedCase), mixedCase, tocase)

\* whether the call stores beyond the block it allocated
RECURSIVE SnakeOverflows(_, _, _)
SnakeOverflows(f, mixedCase, tocase) ==
    IF f.status = "returned" THEN f.oob
    ELSE SnakeOverflows(SnakeStep(f, mixedCase, tocase), mixedCase, tocase)

\* toLowercaseDup (asn1protooutput.c:68-84)
toLowercaseDup(mixedCase) == [k \in 1..Len(mixedCase) |-> tolower(mixedCase[k])]

\* startNotLcLetter (asn1protooutput.c:162-168)
startNotLcLetter(name) == IF name = <<>> \/ ~IsLower(name[1]) THEN 1 ELSE 0

(***************************************************************************)
(* The arguments and the idle state of the string routines.                *)
(***************************************************************************)
Alphabet == {"a", "B", "2", "-", "_", "&", "."}

Garbage == {NUL, "x", "-"}

E2AP_PDU == <<"e", "2", "A", "P", "-", "P", "D", "U">>

HTTPServer == <<"H", "T", "T", "P", "S", "e", "r", "v", "e", "r">>

Identifiers ==
    UNION {[1..n -> Alphabet] : n \in 0..MaxLen} \cup {E2AP_PDU, HTTPServer}

NoCall == [fn |-> "none"]

NoFrame == [status |-> "none"]

NoOutput ==
    [m \in {"PRINT_STDOUT", "GLOBAL_BUFFER"} |-> [stdout |-> <<>>, buffer |-> <<>>]]

TranslatorIdle ==
    /\ input = <<>>
    /\ message = <<>>
    /\ protoenum = <<>>
    /\ ret = 0
    /\ phase = "lowering"
    /\ out = NoOutput
    /\ module = NULL


(***************************************************************************)
(* Values and constraints of the ASN.1 tree, and their printers            *)
(* (asn1printproto.c: proto_value_print, proto_constraint_print,           *)
(* escapeQuotesDup).                                                       *)
(***************************************************************************)
Digits == <<"0", "1", "2", "3", "4", "5", "6", "7", "8", "9">>

RECURSIVE DecNat(_)
DecNat(n) ==
    IF n < 10 THEN Digits[n + 1] ELSE DecNat(n \div 10) \o Digits[(n % 10) + 1]

\* printf("%d", n)
Dec(n) == IF n < 0 THEN "-" \o DecNat(-n) ELSE DecNat(n)

\* asn1p_itoa: the base-10 text of an integer
asn1p_itoa(n) == Dec(n)

INT32_MAX == 2147483647

\* the cast (int)v of the value's integer: the integers of the model are all
\* within the range of int, where the cast keeps the value
ToInt(v) == v

\* snprintf(dst, n, ...): at most n-1 characters are stored
Snprintf(n, text) == IF Len(text) <= n - 1 THEN text ELSE SubSeq(text, 1, n - 1)

IntegerValue(n) == [type |-> "ATV_INTEGER", v_integer |-> n, buf |-> <<>>]

StringValue(b) == [type |-> "ATV_STRING", v_integer |-> 0, buf |-> b]

PlainValue(t) == [type |-> t, v_integer |-> 0, buf |-> <<>>]

RECURSIVE MaskQuotes(_)
\* the loop of the ATV_STRING case: every character, a quote twice
MaskQuotes(p) ==
    IF p = <<>> THEN ""
    ELSE (IF p[1] = "\"" THEN "\"" ELSE "") \o p[1] \o MaskQuotes(Tail(p))

proto_value_print(val, flags) ==
    IF val = NULL THEN ""
    ELSE CASE val.type = "ATV_NULL" -> "NULL"
           [] val.type = "ATV_TYPE" -> "ERROR not yet implemented"
           [] val.type = "ATV_INTEGER" -> asn1p_itoa(val.v_integer)
           [] val.type = "ATV_MIN" -> "0"
           [] val.type = "ATV_MAX" ->
                IF "APF_INT32_VALUE" \in flags THEN Dec(INT32_MAX) ELSE ""
           [] val.type = "ATV_FALSE" -> "FALSE"
           [] val.type = "ATV_TRUE" -> "TRUE"
           [] val.type = "ATV_STRING" ->
                "\"" \o (IF \E k \in 1..Len(val.buf) : val.buf[k] = "\""
                         THEN MaskQuotes(val.buf)
                         ELSE MemRead(val.buf, 0, NUL)) \o "\""
           [] val.type = "ATV_UNPARSED" -> Str(val.buf)
           [] val.type = "ATV_VALUESET" -> ""
           [] OTHER -> ""

\* escapeQuotesDup (asn1printproto.c:66-85)
EscapeStart(original) ==
    [ i |-> 0, added |-> 0,
      escaped |-> original \o <<NUL>>,             \* strdup
      cap |-> Len(original) + 1,
      origlen |-> Len(original),
      oob |-> FALSE, status |-> "loop" ]

EscapeStep(f, original) ==
    LET c   == MemRead(original, f.i, NUL)
        idx == f.i + f.added
        n   == f.origlen + f.added + 1
    IN  IF c = NUL
        THEN [f EXCEPT !.escaped = Store(@, f.origlen + f.added, NUL),
                       !.oob = @ \/ f.origlen + f.added >= f.cap,
                       !.status = "returned"]
        ELSE IF c = "\""
        THEN [f EXCEPT !.escaped = Store(Store(Realloc(@, n), idx, "\\"),
                                         idx + 1, c),
                       !.cap = n,
                       !.oob = @ \/ idx + 1 >= n,
                       !.added = @ + 1, !.i = @ + 1]
        ELSE [f EXCEPT !.escaped = Store(@, idx, c),
                       !.oob = @ \/ idx >= f.cap,
                       !.i = @ + 1]

RECURSIVE EscapeRun(_, _)
EscapeRun(f, original) ==
    IF f.status = "returned" THEN f
    ELSE EscapeRun(EscapeStep(f, original), original)

\* the final frame of the call: .escaped holds the result, .oob tells whether a
\* store went beyond the allocated block
escapeQuotesDup(original) == EscapeRun(EscapeStart(original), original)

(***************************************************************************)
(* The string routines run on their own: one call of toPascalCaseDup,      *)
(* toSnakeCaseDup, escapeQuotesDup or proto_value_print on a string, the   *)
(* loops run iteration by iteration; the result of a snake-case call can   *)
(* be handed to a second call.                                             *)
(***************************************************************************)
TextAlphabet == {"a", "b", "\""}

Texts == UNION {[1..n -> TextAlphabet] : n \in 0..MaxLen}

InitNames ==
    /\ TranslatorIdle
    /\ \/ \E s \in Identifiers :
          \/ /\ call = [fn |-> "toPascalCaseDup", mixedCase |-> s,
                        tocase |-> "none", pass |-> 1, orig |-> s]
             /\ frame = PascalStart(s)
          \/ \E t \in {SNAKECASE_LOWER, SNAKECASE_UPPER} :
                /\ call = [fn |-> "toSnakeCaseDup", mixedCase |-> s,
                           tocase |-> t, pass |-> 1, orig |-> s]
                /\ frame = SnakeStart(s)
       \/ \E s \in Texts :
             \/ /\ call = [fn |-> "escapeQuotesDup", mixedCase |-> s,
                           tocase |-> "none", pass |-> 1, orig |-> s]
                /\ frame = EscapeStart(s)
             \/ /\ call = [fn |-> "proto_value_print", mixedCase |-> s,
                           tocase |-> "none", pass |-> 1, orig |-> s]
                /\ frame = [status |-> "loop"]

\* what the byte at index k of the argument's memory can be
Beyond(k) ==
    IF k > Len(call.mixedCase) /\ k <= Len(call.mixedCase) + MaxOverrun
    THEN Garbage ELSE {NUL}

PascalLoop ==
    /\ call.fn = "toPascalCaseDup"
    /\ frame.status = "loop"
    /\ \E g0 \in Beyond(frame.i), g1 \in Beyond(frame.i + 1) :
          frame' = PascalStep(frame, call.mixedCase, g0, g1)
    /\ UNCHANGED <<input, message, protoenum, ret, phase, out, module, call>>

SnakeLoop ==
    /\ call.fn = "toSnakeCaseDup"
    /\ frame.status = "loop"
    /\ frame' \in StoreOutcomes(frame,
                                SnakeStep(frame, call.mixedCase, call.tocase))
    /\ UNCHANGED <<input, message, protoenum, ret, phase, out, module, call>>

SnakeAgain ==
    /\ call.fn = "toSnakeCaseDup"
    /\ frame.status = "returned"
    /\ call.pass = 1
    /\ call' = [call EXCEPT !.mixedCase = CStr(frame.snakeCase), !.pass = 2]
    /\ frame' = SnakeStart(CStr(frame.snakeCase))
    /\ UNCHANGED <<input, message, protoenum, ret, phase, out, module>>

\* one evaluation of the loop condition of escapeQuotesDup and of its body
EscapeLoop ==
    /\ call.fn = "escapeQuotesDup"
    /\ frame.status = "loop"
    /\ frame' \in StoreOutcomes(frame, EscapeStep(frame, call.mixedCase))
    /\ UNCHANGED <<input, message, protoenum, ret, phase, out, module, call>>

\* proto_value_print on a value of type ATV_STRING, with or without the flag
ValuePrint ==
    /\ call.fn = "proto_value_print"
    /\ frame.status = "loop"
    /\ \E flags \in {{}, {"APF_INT32_VALUE"}} :
          frame' = [status |-> "returned",
                    result |-> proto_value_print(StringValue(call.mixedCase),
                                                 flags)]
    /\ UNCHANGED <<input, message, protoenum, ret, phase, out, module, call>>

NextNames == PascalLoop \/ SnakeLoop \/ SnakeAgain \/ EscapeLoop \/ ValuePrint

SpecNames == InitNames /\ [][NextNames]_vars

RangeNode(t, lo, hi) ==
    [type |-> t, value |-> NULL, containedSubtype |-> NULL,
     range_start |-> lo, range_stop |-> hi, elements |-> <<>>]

ValueNode(v) ==
    [type |-> "ACT_EL_VALUE", value |-> v, containedSubtype |-> NULL,
     range_start |-> NULL, range_stop |-> NULL, elements |-> <<>>]

ContainerNode(t, els) ==
    [type |-> t, value |-> NULL, containedSubtype |-> NULL,
     range_start |-> NULL, range_stop |-> NULL, elements |-> els]

CtdByNode(text) ==
    [type |-> "ACT_CT_CTDBY", value |-> [type |-> "ATV_UNPARSED",
                                         v_integer |-> 0, buf |-> text],
     containedSubtype |-> NULL,
     range_start |-> NULL, range_stop |-> NULL, elements |-> <<>>]

RangeLeftKeywordNumeric(type, flags) ==
    IF type \in {"ACT_EL_RANGE", "ACT_EL_RLRANGE"} THEN "gte: " ELSE "gt: "

\* the left keyword of a range (asn1printproto.c:450-468)
RangeLeftKeyword(type, flags) ==
    IF "APF_STRING_VALUE" \in flags THEN "min_len: "
    ELSE IF type \in {"ACT_EL_RANGE", "ACT_EL_RLRANGE"} THEN "gte: "
    ELSE "gt: "

RangeRightKeywordSwapped(type, flags) ==
    IF "APF_STRING_VALUE" \in flags THEN "max_len: "
    ELSE IF type \in {"ACT_EL_RANGE", "ACT_EL_RLRANGE"} THEN "lte: "
    ELSE "lt: "

\* the right keyword of a range (asn1printproto.c:480-498)
RangeRightKeyword(type, flags) ==
    IF "APF_STRING_VALUE" \in flags THEN "max_len: "
    ELSE IF type \in {"ACT_EL_RANGE", "ACT_EL_LLRANGE"} THEN "lte: "
    ELSE "lt: "

\* the separator of an algebraic node: symtable[symno], symno counted by the
\* fall-through of the case labels; ACT_CA_SET indexes one past the five
\* entries of symtable, an indeterminate pointer ("?")
Symbol(type) ==
    CASE type = "ACT_CA_EXC" -> " EXCEPT "
      [] type = "ACT_CA_INT" -> " ^ "
      [] type = "ACT_CA_UNI" -> ","
      [] type = "ACT_CA_CSV" -> ""
      [] type = "ACT_CA_CRC" -> "("
      [] OTHER -> "?"

RECURSIVE proto_constraint_print(_, _)
RECURSIVE PrintElements(_, _, _, _)

\* the loop over ct->elements of the algebraic cases
PrintElements(ct, flags, i, acc) ==
    IF i > Len(ct.elements) THEN acc
    ELSE LET sub == proto_constraint_print(ct.elements[i], flags)
             txt == (IF i > 1 THEN Symbol(ct.type) ELSE "")
                    \o (IF ct.type = "ACT_CA_CRC" THEN "{" ELSE "")
                    \o sub.result
                    \o (IF ct.type = "ACT_CA_CRC" THEN "}" ELSE "")
                    \o (IF ct.type = "ACT_CA_SET" /\ i < Len(ct.elements)
                        THEN "} " ELSE "")
         IN  PrintElements(ct, flags, i + 1,
                           [result |-> acc.result \o txt,
                            fwrite |-> acc.fwrite \o sub.fwrite])

\* .result is the returned text, .fwrite what safe_fwrite was handed on the way
proto_constraint_print(ct, flags) ==
    LET none == [result |-> "", fwrite |-> <<>>]
        tail(r) ==
            IF Len(ct.elements) > 0
            THEN LET sub == proto_constraint_print(ct.elements[1], flags)
                 IN  [result |-> r.result \o " " \o sub.result,
                      fwrite |-> r.fwrite \o sub.fwrite]
            ELSE r
    IN  CASE ct.type = "ACT_EL_TYPE" ->
               tail([none EXCEPT !.result =
                        proto_value_print(ct.containedSubtype, flags)])
          [] ct.type = "ACT_EL_VALUE" ->
               IF "APF_STRING_VALUE" \in flags
               THEN [none EXCEPT !.result =
                        "min_len: " \o proto_value_print(ct.value, flags)
                        \o ", max_len: " \o proto_value_print(ct.value, flags)]
               ELSE tail([none EXCEPT !.result =
                              proto_value_print(ct.value, flags)])
          [] ct.type \in {"ACT_EL_RANGE", "ACT_EL_LLRANGE",
                          "ACT_EL_RLRANGE", "ACT_EL_ULRANGE"} ->
               LET left == RangeLeftKeyword(ct.type, flags)
                           \o proto_value_print(ct.range_start, flags)
                   val  == proto_value_print(ct.range_stop, flags)
               IN  IF Len(val) = 0
                   THEN [none EXCEPT !.result = left]
                   ELSE [none EXCEPT !.result =
                            left \o ", " \o RangeRightKeyword(ct.type, flags)
                            \o val]
          [] ct.type = "ACT_EL_EXT" -> none
          [] ct.type \in {"ACT_CT_SIZE", "ACT_CT_FROM"} ->
               LET sub == proto_constraint_print(ct.elements[1], flags)
               IN  [result |-> (IF ct.type = "ACT_CT_FROM" THEN "FROM" ELSE "")
                               \o sub.result,
                    fwrite |-> sub.fwrite]
          [] ct.type = "ACT_CT_WCOMP" ->
               tail([none EXCEPT !.result = "WITH COMPONENT"])
          [] ct.type = "ACT_CT_CTDBY" ->
               [result |-> "CONSTRAINED BY ", fwrite |-> <<Str(ct.value.buf)>>]
          [] ct.type \in {"ACT_CA_SET", "ACT_CA_CRC", "ACT_CA_CSV",
                          "ACT_CA_UNI", "ACT_CA_INT", "ACT_CA_EXC"} ->
               PrintElements(ct, flags, 1, none)
          [] ct.type = "ACT_CA_AEX" ->
               tail([none EXCEPT !.result = "ALL EXCEPT"])
          [] OTHER -> none

(***************************************************************************)
(* The proto model (asn1prototypes: constructors and append-only           *)
(* mutators).                                                              *)
(***************************************************************************)
proto_create_message(name, spec_index, unique_idx, comments) ==
    [ name |-> name, spec_index |-> spec_index, unique_idx |-> unique_idx,
      comments |-> comments, entry |-> <<>>, oneof |-> <<>>, param |-> <<>> ]

proto_create_msg_elem(name, type, rules) ==
    [ name |-> name, type |-> type, rules |-> rules, comments |-> "",
      repeated |-> 0 ]

proto_msg_add_elem(msgdef, elem) == [msgdef EXCEPT !.entry = Append(@, elem)]

proto_create_msg_oneof(name, comments) ==
    [ name |-> name, comments |-> comments, entry |-> <<>> ]

proto_msg_add_oneof(msg, oneof) == [msg EXCEPT !.oneof = Append(@, oneof)]

proto_msg_add_param(msg, pp) == [msg EXCEPT !.param = Append(@, pp)]

proto_messages_add_msg(msgs, msg) == Append(msgs, msg)

proto_create_enum(name, comments) ==
    [ name |-> name, comments |-> comments, def |-> <<>> ]

proto_create_enum_def(name, index) == [ name |-> name, index |-> index ]

proto_enum_add_def(enum, def) == [enum EXCEPT !.def = Append(@, def)]

proto_enums_add_enum(enums, enum) == Append(enums, enum)

(***************************************************************************)
(* The ASN.1 expressions handed to the lowerer.                            *)
(***************************************************************************)
source_file_name == "m.asn1"

\* an expression with the given identifier, meta type and expression type and
\* nothing else set
Expr(Identifier, meta_type, expr_type) ==
    [ Identifier |-> Identifier, meta_type |-> meta_type,
      expr_type |-> expr_type, value |-> NULL, constraints |-> NULL,
      members |-> <<>>, reference |-> <<>>, specializations |-> <<>>,
      ioc_table |-> NULL, lhs_params |-> NULL, terminal |-> NULL,
      spec_index |-> 0, type_unique_index |-> 1, lineno |-> 7 ]

\* "%s:%d" of the comment templates; a comment block is kept as the sequence
\* of its newline-separated lines
Provenance(what, expr) ==
    <<what \o " from " \o source_file_name \o ":" \o Dec(expr.lineno)>>

\* "%03d" of an index below 1000, as characters
Dec3(n) ==
    <<Digits[((n \div 100) % 10) + 1], Digits[((n \div 10) % 10) + 1],
      Digits[(n % 10) + 1]>>

RECURSIVE JoinComponents(_)
\* the dotted path of a reference (asn1printproto.c:175-178)
JoinComponents(comps) ==
    IF comps = <<>> THEN ""
    ELSE IF Len(comps) = 1 THEN Str(comps[1])
    ELSE Str(comps[1]) \o "." \o JoinComponents(Tail(comps))

\* proto_param_type (asn1printproto.c:87-104)
proto_param_type(param) ==
    IF param.governor = <<>> THEN "PROTO_PARAM_TYPE"
    ELSE IF param.argument # <<>> /\ IsLower(param.argument[1])
         THEN "PROTO_PARAM_VALUE"
    ELSE "PROTO_PARAM_VALUE_SET"

RECURSIVE ExtractParams(_, _, _)
ExtractParams(msg, params, i) ==
    IF i > Len(params) THEN msg
    ELSE ExtractParams(
             [proto_msg_add_param(msg, [kind |-> proto_param_type(params[i]),
                                        name |-> params[i].argument])
                 EXCEPT !.comments = Append(@, "Param " \o Str(params[i].governor)
                                             \o ":" \o Str(params[i].argument))],
             params, i + 1)

\* proto_extract_params with the strcat of its result to msg->comments
proto_extract_params(msg, expr) ==
    IF expr.lhs_params = NULL THEN msg
    ELSE ExtractParams(msg, expr.lhs_params.params, 1)

T_int32 == <<"i", "n", "t", "3", "2">>

T_string == <<"s", "t", "r", "i", "n", "g">>

T_bool == <<"b", "o", "o", "l">>

T_float == <<"f", "l", "o", "a", "t">>

T_BitString == <<"B", "i", "t", "S", "t", "r", "i", "n", "g">>

T_BasicOid == <<"B", "a", "s", "i", "c", "O", "i", "d">>

N_value == <<"v", "a", "l", "u", "e">>

\* proto_process_enumerated (asn1printproto.c:331-344)
RECURSIVE EnumeratedLoop(_, _, _)
EnumeratedLoop(members, i, enum) ==
    IF i > Len(members) THEN enum
    ELSE LET se == members[i]
         IN  IF se.expr_type = "A1TC_UNIVERVAL"
             THEN EnumeratedLoop(members, i + 1,
                      proto_enum_add_def(enum,
                          proto_create_enum_def(se.Identifier,
                              IF se.value.type = "ATV_INTEGER"
                                 /\ se.value.v_integer >= 0
                              THEN se.value.v_integer ELSE -1)))
             ELSE EnumeratedLoop(members, i + 1, enum)

proto_process_enumerated(expr, enum) == EnumeratedLoop(expr.members, 1, enum)

ChildElemKeepAll(se, repeated) ==
    [elem |-> [proto_create_msg_elem(se.Identifier, T_int32, "")
                  EXCEPT !.repeated = repeated],
     skip |-> FALSE, fwrite |-> <<>>]

\* the element built for one member of a SEQUENCE, SEQUENCE OF or CHOICE, and
\* whether it is added (asn1printproto.c:356-401)
ChildElem(se, repeated) ==
    LET elem == [proto_create_msg_elem(se.Identifier, T_int32, "")
                    EXCEPT !.repeated = repeated]
        none == <<>>
    IN  IF se.expr_type = "ASN_BASIC_BIT_STRING"
        THEN [elem |-> [elem EXCEPT !.type = T_BitString], skip |-> FALSE,
              fwrite |-> none]
        ELSE IF se.expr_type = "ASN_BASIC_OBJECT_IDENTIFIER"
        THEN [elem |-> [elem EXCEPT !.type = T_BasicOid], skip |-> FALSE,
              fwrite |-> none]
        ELSE IF se.expr_type = "ASN_BASIC_BOOLEAN"
        THEN [elem |-> [elem EXCEPT !.type = T_bool], skip |-> FALSE,
              fwrite |-> none]
        ELSE IF se.expr_type \in {"ASN_STRING_UTF8String",
                                  "ASN_STRING_TeletexString"}
        THEN IF se.constraints # NULL
             THEN LET c == proto_constraint_print(se.constraints,
                                                  {"APF_STRING_VALUE"})
                  IN  [elem |-> [elem EXCEPT !.type = T_string,
                                   !.rules = "string = {" \o c.result \o "}"],
                       skip |-> FALSE, fwrite |-> c.fwrite]
             ELSE [elem |-> [elem EXCEPT !.type = T_string], skip |-> FALSE,
                   fwrite |-> none]
        ELSE IF se.meta_type = "AMT_TYPE"
                /\ se.expr_type = "ASN_CONSTR_SEQUENCE_OF"
        THEN LET se2 == se.members[1]
             IN  [elem |-> [elem EXCEPT
                      !.repeated = 1,
                      !.type = IF se2.expr_type = "A1TC_REFERENCE"
                                  /\ se2.meta_type = "AMT_TYPEREF"
                                  /\ Len(se2.reference) = 1
                               THEN se2.reference[1] ELSE @],
                   skip |-> FALSE, fwrite |-> none]
        ELSE IF se.expr_type = "A1TC_REFERENCE" /\ se.meta_type = "AMT_TYPEREF"
        THEN [elem |-> [elem EXCEPT
                  !.type = IF Len(se.reference) = 2 THEN se.reference[2]
                           ELSE IF Len(se.reference) = 1 THEN se.reference[1]
                           ELSE @],
              skip |-> FALSE, fwrite |-> none]
        ELSE IF se.expr_type = "A1TC_UNIVERVAL"
        THEN [elem |-> elem, skip |-> TRUE, fwrite |-> none]
        ELSE [elem |-> elem, skip |-> se.expr_type = "A1TC_EXTENSIBLE",
              fwrite |-> none]

RECURSIVE ChildrenLoop(_, _, _, _)
ChildrenLoop(members, i, acc, repeated) ==
    IF i > Len(members) THEN acc
    ELSE LET c == ChildElem(members[i], repeated)
         IN  ChildrenLoop(members, i + 1,
                 [msgdef |-> IF c.skip THEN acc.msgdef
                             ELSE proto_msg_add_elem(acc.msgdef, c.elem),
                  fwrite |-> acc.fwrite \o c.fwrite],
                 repeated)

RECURSIVE Reverse(_)
Reverse(q) == IF q = <<>> THEN <<>> ELSE Append(Reverse(Tail(q)), q[1])

ProcessChildrenReversed(expr, msgdef, repeated) ==
    ChildrenLoop(Reverse(expr.members), 1, [msgdef |-> msgdef, fwrite |-> <<>>],
                 repeated)

\* proto_process_children (asn1printproto.c:346-410): msgdef with the members'
\* elements appended, and what the constraint printer handed to safe_fwrite
proto_process_children(expr, msgdef, repeated) ==
    ChildrenLoop(expr.members, 1, [msgdef |-> msgdef, fwrite |-> <<>>], repeated)

\* asn1extract_columns (asn1printproto.c:609-651); a cell is
\* [new_ref, field, value], value being [Identifier, value]
IocCellElem(cell) ==
    LET isInt == cell.value.value # NULL /\ cell.value.value.type = "ATV_INTEGER"
        idText == cell.value.Identifier
    IN  proto_create_msg_elem(
            cell.field \o <<"-">> \o idText,
            IF isInt THEN T_int32
            ELSE IF idText = <<"I", "N", "T", "E", "G", "E", "R">> THEN T_int32
            ELSE IF idText = <<"R", "E", "A", "L">> THEN T_float
            ELSE idText,
            IF isInt
            THEN "int32.const = " \o Dec(ToInt(cell.value.value.v_integer))
            ELSE "")

RECURSIVE IocCells(_, _, _)
IocCells(cells, j, msg) ==
    IF j > Len(cells) THEN msg
    ELSE IocCells(cells, j + 1,
                  IF cells[j].new_ref > 0
                  THEN proto_msg_add_elem(msg, IocCellElem(cells[j]))
                  ELSE msg)

RECURSIVE IocRows(_, _, _)
IocRows(rows, i, msg) ==
    IF i > Len(rows) THEN msg
    ELSE IocRows(rows, i + 1, IocCells(rows[i], 1, msg))

asn1extract_columns(expr, msgs) ==
    LET comment == <<"concrete instance of class "
                     \o (IF Len(expr.reference) > 0
                         THEN Str(expr.reference[1]) ELSE "")
                     \o " from " \o source_file_name \o ":"
                     \o Dec(expr.lineno)>>
        new_proto_msg == proto_create_message(expr.Identifier, expr.spec_index,
                                              expr.type_unique_index, comment)
    IN  proto_messages_add_msg(msgs, IocRows(expr.ioc_table.row, 1, new_proto_msg))

\* a piece of output: its text, and what it is, for the properties to read
Line(kind, text, owner, num) ==
    [kind |-> kind, text |-> text, owner |-> owner, num |-> num]

LowerStateFresh(msgs, enums) ==
    [ message |-> <<>>, protoenum |-> <<>>, ret |-> 0, printf |-> <<>>,
      fwrite |-> <<>>, oob |-> FALSE ]

\* the state of a lowering call: the two lists, the return value, what printf
\* wrote to stdout, what safe_fwrite was handed, and whether a store went
\* beyond an allocated block
LowerState(msgs, enums) ==
    [ message |-> msgs, protoenum |-> enums, ret |-> 0, printf |-> <<>>,
      fwrite |-> <<>>, oob |-> FALSE ]

\* the single-field message of the value and scalar-type cases
ValueMessage(expr, what) ==
    proto_create_message(expr.Identifier, expr.spec_index,
                         expr.type_unique_index, Provenance(what, expr))

\* asn1print_expr_proto past the specialization and identifier checks
\* (asn1printproto.c:151-328)
LowerOne(expr, st, flags) ==
    LET msgelem == proto_create_msg_elem(N_value, T_int32, "")
        add(msg, elem) ==
            [st EXCEPT !.message =
                proto_messages_add_msg(@, proto_msg_add_elem(msg, elem))]
    IN
    IF expr.expr_type = "ASN_BASIC_ENUMERATED"
    THEN [st EXCEPT !.protoenum =
             proto_enums_add_enum(@,
                 proto_process_enumerated(expr,
                     proto_create_enum(expr.Identifier,
                                       Provenance("enumerated", expr))))]
    ELSE IF expr.meta_type = "AMT_VALUE"
    THEN CASE expr.expr_type = "ASN_BASIC_INTEGER" ->
                add(ValueMessage(expr, "constant Integer"),
                    [msgelem EXCEPT !.rules =
                        "int32.const = " \o Dec(ToInt(expr.value.v_integer))])
           [] expr.expr_type = "A1TC_REFERENCE" ->
                LET msg == ValueMessage(expr, "reference")
                    el  == [msgelem EXCEPT
                               !.comments = JoinComponents(expr.reference)]
                IN  CASE expr.value.type = "ATV_INTEGER" ->
                           add(msg, [el EXCEPT !.rules =
                               "int32.const = "
                               \o Dec(ToInt(expr.value.v_integer))])
                      [] expr.value.type = "ATV_STRING" ->
                           LET esc == escapeQuotesDup(expr.value.buf)
                           IN  [add(msg, [el EXCEPT
                                   !.type = T_string,
                                   !.rules = Snprintf(100,
                                       "string.const = \""
                                       \o Str(CStr(esc.escaped)) \o "\"")])
                                  EXCEPT !.oob = @ \/ esc.oob]
                      [] expr.value.type = "ATV_UNPARSED" ->
                           IF expr.ioc_table # NULL
                           THEN [st EXCEPT !.message =
                                    asn1extract_columns(expr, @)]
                           ELSE st
                      [] OTHER ->
                           [st EXCEPT !.printf = Append(@,
                               Line("error",
                                    "// Error. AMT_VALUE with ExprType: "
                                    \o expr.value.type \o "\n", 0, 0))]
           [] OTHER ->
                [st EXCEPT !.ret = -1,
                           !.printf = Append(@,
                               Line("error",
                                    "ERROR: unhandled expr->expr_type "
                                    \o expr.expr_type \o "\n", 0, 0))]
    ELSE IF expr.expr_type = "ASN_BASIC_INTEGER"
            /\ expr.meta_type = "AMT_VALUESET"
    THEN LET c == proto_constraint_print(expr.constraints, flags)
         IN  [add(ValueMessage(expr, "range of Integer"),
                  [msgelem EXCEPT !.rules = "int32 = {in: [" \o c.result \o "]}"])
                EXCEPT !.fwrite = @ \o c.fwrite]
    ELSE IF expr.meta_type = "AMT_TYPE"
            /\ expr.expr_type \notin {"ASN_CONSTR_SEQUENCE",
                                      "ASN_CONSTR_SEQUENCE_OF",
                                      "ASN_CONSTR_CHOICE"}
    THEN LET msg == proto_extract_params(
                        ValueMessage(expr, "range of Integer"), expr)
         IN  CASE expr.expr_type = "ASN_BASIC_INTEGER" ->
                    IF expr.constraints # NULL
                    THEN LET c == proto_constraint_print(expr.constraints,
                                      flags \cup {"APF_INT32_VALUE"})
                         IN  [add(msg, [msgelem EXCEPT !.rules =
                                            "int32 = {" \o c.result \o "}"])
                                EXCEPT !.fwrite = @ \o c.fwrite]
                    ELSE add(msg, msgelem)
               [] expr.expr_type \in {"ASN_STRING_IA5String",
                                      "ASN_STRING_BMPString"} ->
                    IF expr.constraints # NULL
                    THEN LET c == proto_constraint_print(expr.constraints,
                                      flags \cup {"APF_STRING_VALUE"})
                         IN  [add(msg, [msgelem EXCEPT
                                            !.type = T_string,
                                            !.rules =
                                              "string = {" \o c.result \o "}"])
                                EXCEPT !.fwrite = @ \o c.fwrite]
                    ELSE add(msg, [msgelem EXCEPT !.type = T_string])
               [] expr.expr_type = "ASN_BASIC_BOOLEAN" ->
                    add(msg, [msgelem EXCEPT !.type = T_bool])
               [] OTHER -> st
    ELSE IF expr.meta_type = "AMT_TYPE"
            /\ expr.expr_type \in {"ASN_CONSTR_SEQUENCE",
                                   "ASN_CONSTR_SEQUENCE_OF"}
    THEN LET msg == proto_extract_params(ValueMessage(expr, "sequence"), expr)
             ch  == proto_process_children(expr, msg,
                        IF expr.expr_type = "ASN_CONSTR_SEQUENCE_OF"
                        THEN 1 ELSE 0)
         IN  [st EXCEPT !.message = proto_messages_add_msg(@, ch.msgdef),
                        !.fwrite = @ \o ch.fwrite]
    ELSE IF expr.meta_type = "AMT_TYPE"
            /\ expr.expr_type = "ASN_CONSTR_CHOICE"
    THEN LET msg   == proto_extract_params(ValueMessage(expr, "sequence"),
                                           expr)
             oneof == proto_create_msg_oneof(expr.Identifier,
                                             Provenance("choice", expr))
             ch    == proto_process_children(expr, oneof, 0)
         IN  [st EXCEPT !.message = proto_messages_add_msg(@,
                                        proto_msg_add_oneof(msg, ch.msgdef)),
                        !.fwrite = @ \o ch.fwrite]
    ELSE IF expr.expr_type = "A1TC_CLASSDEF"
    THEN st
    ELSE IF expr.meta_type = "AMT_TYPEREF"
    THEN LET msg == proto_extract_params(ValueMessage(expr, "reference"), expr)
         IN  add(msg, [msgelem EXCEPT !.type =
                          IF Len(expr.reference) >= 1
                          THEN expr.terminal.Identifier
                               \o Dec3(expr.terminal.type_unique_index)
                          ELSE @])
    ELSE IF expr.meta_type = "AMT_VALUESET"
    THEN st
    ELSE [st EXCEPT !.printf = Append(@,
             Line("error",
                  "\n\n//////// ERROR Unhandled expr " \o Str(expr.Identifier)
                  \o ". Meta type: " \o expr.meta_type \o ". Expr type: "
                  \o expr.expr_type \o " /////\n\n", 0, 0))]

RECURSIVE asn1print_expr_proto(_, _, _)
RECURSIVE LowerClones(_, _, _, _)

LowerClonesFirstOnly(clones, i, st, flags) ==
    IF i > 1 THEN [st EXCEPT !.ret = 0]
    ELSE LET r == asn1print_expr_proto(clones[i], st, flags)
         IN  IF r.ret # 0 THEN r ELSE [r EXCEPT !.ret = 0]

\* the loop over expr->specializations (asn1printproto.c:136-147)
LowerClones(clones, i, st, flags) ==
    IF i > Len(clones) THEN [st EXCEPT !.ret = 0]
    ELSE LET r == asn1print_expr_proto(clones[i], st, flags)
         IN  IF r.ret # 0 THEN r ELSE LowerClones(clones, i + 1, r, flags)

\* asn1print_expr_proto (asn1printproto.c:127-329)
asn1print_expr_proto(expr, st, flags) ==
    IF Len(expr.specializations) > 0
    THEN LowerClones(expr.specializations, 1, st, flags)
    ELSE IF expr.Identifier = NULLSTR THEN [st EXCEPT !.ret = 0]
    ELSE LowerOne(expr, [st EXCEPT !.ret = 0], flags)

(***************************************************************************)
(* Emission (asn1protooutput.c: proto_print_msg and what it calls).  Each  *)
(* operator returns the pieces handed to safe_printf, in order.            *)
(***************************************************************************)
VERSION == "VERSION"

\* the proto scalar type names of PROTOSCALARTYPES
PROTOSCALARTYPES == <<T_int32, T_float, T_bool, T_string>>

\* strstr(hay, needle) != NULL
Contains(hay, needle) ==
    \E k \in 0..(Len(hay) - Len(needle)) :
        SubSeq(hay, k + 1, k + Len(needle)) = needle

IsScalarType(type) ==
    \E k \in 1..Len(PROTOSCALARTYPES) : Contains(PROTOSCALARTYPES[k], type)

RECURSIVE proto_remove_rel_path(_)
\* strips the leading "./" and "../" segments of a path
proto_remove_rel_path(path) ==
    IF Len(path) >= 2 /\ SubSeq(path, 1, 2) = <<".", "/">>
    THEN proto_remove_rel_path(SubSeq(path, 3, Len(path)))
    ELSE IF Len(path) >= 3 /\ SubSeq(path, 1, 3) = <<".", ".", "/">>
    THEN proto_remove_rel_path(SubSeq(path, 4, Len(path)))
    ELSE path

\* the INDENT macro's leading blanks
Indent(level) == IF level <= 0 THEN "" ELSE IF level = 1 THEN "    " ELSE "        "

\* proto_print_comments (asn1protooutput.c:170-180)
\* (of marks whose comment block it is: the module's header, an enum's, a
\* message's or a oneof's)
proto_print_comments(comments, of, owner) ==
    [k \in 1..Len(comments) |->
        Line(of, "// " \o comments[k] \o "\n", owner, 0)]

FieldNumberFromZero(i) == i - 1

\* the number printed for entry[i] of print_entries, i counted from 1 here
FieldNumber(i) == i

\* print_entries (asn1protooutput.c:203-235); a field's line also carries
\* the name of the field it was printed for
print_entries(entry, level, owner) ==
    [ i \in 1..Len(entry) |->
        LET def == entry[i]
            typePc == IF IsScalarType(def.type) THEN def.type
                      ELSE toPascalCaseDup(def.type)
            nameLsc == toSnakeCaseDup(def.name, SNAKECASE_LOWER)
        IN  [ kind |-> "field",
              text |-> Indent(level)
                 \o (IF def.repeated > 0 THEN "repeated " ELSE "")
                 \o Str(typePc) \o " " \o Str(nameLsc) \o " = "
                 \o Dec(FieldNumber(i))
                 \o (IF Len(def.rules) > 0
                     THEN " [(validate.v1.rules)." \o def.rules \o "]" ELSE "")
                 \o (IF Len(def.comments) > 0
                     THEN "; // " \o def.comments \o "\n" ELSE ";\n"),
              owner |-> owner, num |-> FieldNumber(i), name |-> def.name ] ]

\* proto_print_single_oneof (asn1protooutput.c:237-251)
proto_print_single_oneof(proto_oneof, level, owner) ==
    <<Line("indent", Indent(level), owner, 0)>>
    \o proto_print_comments(proto_oneof.comments, "oneof_comment", owner)
    \o <<Line("oneof",
              Indent(level) \o "oneof "
              \o Str(toSnakeCaseDup(proto_oneof.name, SNAKECASE_LOWER))
              \o " {\n", owner, 0)>>
    \o print_entries(proto_oneof.entry, level + 1, owner)
    \o <<Line("oneof_end", Indent(level) \o "}\n", owner, 0)>>

RECURSIVE PrintOneofs(_, _, _, _)
PrintOneofs(oneofs, i, level, owner) ==
    IF i > Len(oneofs) THEN <<>>
    ELSE proto_print_single_oneof(oneofs[i], level, owner)
         \o PrintOneofs(oneofs, i + 1, level, owner)

\* proto_print_single_msg (asn1protooutput.c:253-271)
proto_print_single_msg(proto_msg, level, owner) ==
    proto_print_comments(proto_msg.comments, "message_comment", owner)
    \o <<Line("message",
              "message " \o Str(toPascalCaseDup(proto_msg.name)) \o " {\n",
              owner, 0)>>
    \o print_entries(proto_msg.entry, level + 1, owner)
    \o PrintOneofs(proto_msg.oneof, 1, level + 1, owner)
    \o <<Line("message_end", Indent(level) \o "};\n\n", owner, 0)>>

\* the loop that looks for an entry with index 0 (asn1protooutput.c:286-292)
HasEnumZero(def) == \E i \in 1..Len(def) : def[i].index = 0

RECURSIVE EnumEntries(_, _, _, _, _, _)
\* the loop that prints the entries (asn1protooutput.c:297-307); index is the
\* running counter handed out to the entries without an explicit index
EnumEntries(def, i, index, enumNameUc, level, owner) ==
    IF i > Len(def) THEN <<>>
    ELSE LET n == IF def[i].index < 0 THEN index ELSE def[i].index
         IN  <<Line("enum_entry",
                    Indent(level) \o enumNameUc \o "_"
                    \o Str(toSnakeCaseDup(def[i].name, SNAKECASE_UPPER))
                    \o " = " \o Dec(n) \o ";\n", owner, n)>>
             \o EnumEntries(def, i + 1,
                            IF def[i].index < 0 THEN index + 1 ELSE index,
                            enumNameUc, level, owner)

\* proto_print_single_enum (asn1protooutput.c:273-311)
proto_print_single_enum(proto_enum, level, owner) ==
    LET enumNameUc == Str(toSnakeCaseDup(proto_enum.name, SNAKECASE_UPPER))
    IN  proto_print_comments(proto_enum.comments, "enum_comment", owner)
        \o <<Line("enum",
                  "enum " \o Str(toPascalCaseDup(proto_enum.name)) \o " {\n",
                  owner, 0)>>
        \o (IF ~HasEnumZero(proto_enum.def)
            THEN <<Line("enum_entry",
                        Indent(level + 1) \o enumNameUc
                        \o "_UNDEFINED = 0; // auto generated\n", owner, 0)>>
            ELSE <<>>)
        \o EnumEntries(proto_enum.def, 1, 0, enumNameUc, level + 1, owner)
        \o <<Line("enum_end", "};\n\n", owner, 0)>>

RECURSIVE PrintEnums(_, _, _)
PrintEnums(enums, i, level) ==
    IF i > Len(enums) THEN <<>>
    ELSE proto_print_single_enum(enums[i], level, i)
         \o PrintEnums(enums, i + 1, level)

RECURSIVE PrintMessages(_, _, _)
PrintMessages(msgs, i, level) ==
    IF i > Len(msgs) THEN <<>>
    ELSE proto_print_single_msg(msgs[i], level, i)
         \o PrintMessages(msgs, i + 1, level)

\* strrchr(path, '/') for a path that holds a '/'
FromLastSlash(path) ==
    LET k == CHOOSE k \in 1..Len(path) :
                 path[k] = "/" /\ \A j \in (k + 1)..Len(path) : path[j] # "/"
    IN  SubSeq(path, k, Len(path))

RECURSIVE OidArcs(_, _)
OidArcs(arcs, ac) ==
    IF ac > Len(arcs) THEN ""
    ELSE " " \o (IF arcs[ac].name # NULLSTR
                 THEN Str(arcs[ac].name)
                      \o (IF arcs[ac].number >= 0
                          THEN "(" \o asn1p_itoa(arcs[ac].number) \o ")"
                          ELSE "")
                 ELSE asn1p_itoa(arcs[ac].number))
         \o OidArcs(arcs, ac + 1)

\* proto_print_oid (asn1protooutput.c:182-201)
proto_print_oid(oid) == " {" \o OidArcs(oid.arcs, 1) \o " }"

\* the header comment, the syntax line and the package line
\* (asn1protooutput.c:314-341)
PrintHeader(m) ==
    LET srcNoRelPath ==
            proto_remove_rel_path(toSnakeCaseDup(m.srcfilename, SNAKECASE_LOWER))
    IN  proto_print_comments(m.comments, "header", 0)
        \o <<Line("header",
                  "////////////////////// " \o Str(toLowercaseDup(m.modulename))
                  \o ".proto //////////////////////\n", 0, 0),
             Line("header", "// Protobuf generated", 0, 0),
             Line("header",
                  IF Contains(m.srcfilename, <<"/">>)
                  THEN " from " \o Str(FromLastSlash(m.srcfilename)) \o " "
                  ELSE " from /" \o Str(m.srcfilename) \o " ", 0, 0),
             Line("header", "by asn1c-" \o VERSION \o "\n// ", 0, 0),
             Line("header", Str(m.modulename), 0, 0)>>
        \o (IF m.oid # NULL THEN <<Line("header", proto_print_oid(m.oid), 0, 0)>>
            ELSE <<>>)
        \o <<Line("header", "\n", 0, 0),
             Line("syntax", "\nsyntax = \"proto3\";\n\n", 0, 0),
             Line("package",
                  (IF startNotLcLetter(srcNoRelPath) = 0 THEN "package "
                   ELSE "package pkg") \o Str(srcNoRelPath) \o ".v1;\n\n",
                  0, 0)>>

\* the loop over the module's imports (asn1protooutput.c:343-358)
PrintImports(m) ==
    LET srcNoRelPath ==
            proto_remove_rel_path(toSnakeCaseDup(m.srcfilename, SNAKECASE_LOWER))
    IN  [ i \in 1..Len(m.import) |->
            Line("import",
                 (IF startNotLcLetter(srcNoRelPath) = 0 THEN "import \""
                  ELSE "import \"pkg") \o Str(srcNoRelPath) \o "/v1/"
                 \o Str(toLowercaseDup(m.import[i].path)) \o ".proto\";"
                 \o (IF m.import[i].oid # NULL
                     THEN " //" \o proto_print_oid(m.import[i].oid) ELSE "")
                 \o "\n",
                 i, 0) ]

ValidateImport ==
    <<Line("validate", "import \"validate/v1/validate.proto\";\n\n", 0, 0)>>

EmitMessagesFirst(m, msgs, enums, level) ==
    PrintHeader(m) \o PrintImports(m) \o ValidateImport
    \o PrintMessages(msgs, 1, level) \o PrintEnums(enums, 1, level)

\* proto_print_msg (asn1protooutput.c:313-384)
proto_print_msg(m, msgs, enums, level) ==
    PrintHeader(m) \o PrintImports(m) \o ValidateImport
    \o PrintEnums(enums, 1, level) \o PrintMessages(msgs, 1, level)

(***************************************************************************)
(* The expressions the model hands to the lowerer.  Identifiers are chosen *)
(* so that the rewriters applied to them at emission stay inside their     *)
(* buffers; the rewriters' behaviour on other identifiers is explored by   *)
(* SpecNames.                                                              *)
(***************************************************************************)
Id(a, b) == <<a, b>>

Univerval(name, v) ==
    [Expr(name, "AMT_VALUE", "A1TC_UNIVERVAL") EXCEPT !.value = IntegerValue(v)]

Enumerated(name, ms) ==
    [Expr(name, "AMT_TYPE", "ASN_BASIC_ENUMERATED") EXCEPT !.members = ms]

EnumIndexes == {-1, 0, 2}

EnumExprs ==
    {Enumerated(Id("C", "l"), <<Univerval(Id("r", "d"), a)>>) : a \in EnumIndexes}
    \cup {Enumerated(Id("C", "l"),
                     <<Univerval(Id("r", "d"), a), Univerval(Id("g", "n"), b)>>) :
              a \in {-1, 0}, b \in {-1, 2}}
    \cup {Enumerated(Id("C", "l"),
                     <<Expr(<<".", ".", ".">>, "AMT_TYPE", "A1TC_EXTENSIBLE"),
                       Univerval(Id("r", "d"), 1)>>)}

RefTo(name, comps) ==
    [Expr(name, "AMT_TYPEREF", "A1TC_REFERENCE") EXCEPT
        !.reference = comps, !.terminal = [Identifier |-> comps[Len(comps)],
                                           type_unique_index |-> 12]]

ValueExprs ==
    { [Expr(Id("k", "a"), "AMT_VALUE", "ASN_BASIC_INTEGER") EXCEPT
          !.value = IntegerValue(5)],
      [Expr(Id("k", "b"), "AMT_VALUE", "A1TC_REFERENCE") EXCEPT
          !.value = IntegerValue(5), !.reference = <<Id("T", "a")>>],
      [Expr(Id("k", "c"), "AMT_VALUE", "A1TC_REFERENCE") EXCEPT
          !.value = StringValue(<<"a", "b">>), !.reference = <<Id("T", "a")>>],
      [Expr(Id("k", "d"), "AMT_VALUE", "A1TC_REFERENCE") EXCEPT
          !.value = StringValue(<<"a", "\"", "b">>),
          !.reference = <<Id("T", "a"), Id("&", "f")>>],
      [Expr(Id("k", "e"), "AMT_VALUE", "A1TC_REFERENCE") EXCEPT
          !.value = PlainValue("ATV_UNPARSED")],
      [Expr(Id("k", "f"), "AMT_VALUE", "A1TC_REFERENCE") EXCEPT
          !.value = PlainValue("ATV_UNPARSED"),
          !.reference = <<Id("C", "s")>>,
          !.ioc_table = [row |-> <<
              << [new_ref |-> 1, field |-> Id("&", "i"),
                  value |-> [Identifier |-> Id("i", "d"),
                             value |-> IntegerValue(3)]],
                 [new_ref |-> 1, field |-> Id("&", "t"),
                  value |-> [Identifier |-> <<"R", "E", "A", "L">>,
                             value |-> NULL]],
                 [new_ref |-> 0, field |-> Id("&", "u"),
                  value |-> [Identifier |-> Id("T", "b"), value |-> NULL]] >> >>]],
      [Expr(Id("k", "g"), "AMT_VALUE", "A1TC_REFERENCE") EXCEPT
          !.value = PlainValue("ATV_REAL")],
      [Expr(Id("k", "h"), "AMT_VALUE", "ASN_BASIC_BOOLEAN") EXCEPT
          !.value = PlainValue("ATV_TRUE")] }

RangeTypes ==
    {"ACT_EL_RANGE", "ACT_EL_LLRANGE", "ACT_EL_RLRANGE", "ACT_EL_ULRANGE"}

IntegerType(ct) ==
    [Expr(Id("A", "g"), "AMT_TYPE", "ASN_BASIC_INTEGER") EXCEPT !.constraints = ct]

StringType(ct) ==
    [Expr(Id("N", "m"), "AMT_TYPE", "ASN_STRING_IA5String") EXCEPT
        !.constraints = ct]

ScalarExprs ==
    {IntegerType(RangeNode(t, IntegerValue(0), IntegerValue(120))) :
         t \in RangeTypes}
    \cup {IntegerType(RangeNode("ACT_EL_RANGE", IntegerValue(5),
                                PlainValue("ATV_MAX"))),
          IntegerType(RangeNode("ACT_EL_RANGE", PlainValue("ATV_MIN"),
                                IntegerValue(5))),
          IntegerType(NULL),
          IntegerType(ValueNode(IntegerValue(7))),
          IntegerType(CtdByNode(<<"x">>))}
    \cup {StringType(ContainerNode("ACT_CT_SIZE",
              <<RangeNode(t, IntegerValue(1), IntegerValue(32))>>)) :
             t \in {"ACT_EL_RANGE", "ACT_EL_ULRANGE"}}
    \cup {StringType(ContainerNode("ACT_CT_SIZE",
              <<RangeNode("ACT_EL_RANGE", IntegerValue(1),
                          PlainValue("ATV_MAX"))>>)),
          StringType(ContainerNode("ACT_CT_SIZE", <<ValueNode(IntegerValue(4))>>)),
          StringType(NULL),
          Expr(Id("F", "l"), "AMT_TYPE", "ASN_BASIC_BOOLEAN"),
          Expr(Id("U", "t"), "AMT_TYPE", "ASN_STRING_UTF8String")}

Members ==
    << Expr(Id("b", "o"), "AMT_TYPE", "ASN_BASIC_BOOLEAN"),
       RefTo(Id("p", "t"), <<Id("P", "t")>>),
       Expr(<<".", ".", ".">>, "AMT_TYPE", "A1TC_EXTENSIBLE"),
       Univerval(Id("u", "v"), 1),
       [Expr(Id("n", "m"), "AMT_TYPE", "ASN_STRING_UTF8String") EXCEPT
           !.constraints = ContainerNode("ACT_CT_SIZE",
               <<RangeNode("ACT_EL_RANGE", IntegerValue(1), IntegerValue(8))>>)],
       RefTo(Id("c", "f"), <<Id("C", "s"), Id("&", "T")>>),
       [Expr(Id("l", "s"), "AMT_TYPE", "ASN_CONSTR_SEQUENCE_OF") EXCEPT
           !.members = <<RefTo(NULLSTR, <<Id("P", "t")>>)>>],
       Expr(Id("i", "n"), "AMT_TYPE", "ASN_BASIC_INTEGER"),
       Expr(Id("b", "s"), "AMT_TYPE", "ASN_BASIC_BIT_STRING"),
       Expr(Id("o", "i"), "AMT_TYPE", "ASN_BASIC_OBJECT_IDENTIFIER") >>

MemberLists ==
    { SubSeq(Members, 1, 4), SubSeq(Members, 5, 7), SubSeq(Members, 8, 10), <<>> }

ConstructedExprs ==
    {[Expr(Id("S", "q"), "AMT_TYPE", "ASN_CONSTR_SEQUENCE") EXCEPT !.members = ms] :
         ms \in MemberLists}
    \cup {[Expr(Id("P", "l"), "AMT_TYPE", "ASN_CONSTR_SEQUENCE_OF") EXCEPT
              !.members = ms] : ms \in {<<RefTo(Id("v", "l"), <<Id("P", "t")>>)>>}}
    \cup {[Expr(Id("S", "h"), "AMT_TYPE", "ASN_CONSTR_CHOICE") EXCEPT
              !.members = ms] :
              ms \in {<<RefTo(Id("c", "i"), <<Id("C", "i")>>),
                        RefTo(Id("s", "q"), <<Id("S", "q")>>)>>,
                      SubSeq(Members, 1, 4)}}

OtherExprs ==
    { Expr(Id("C", "s"), "AMT_OBJECTCLASS", "A1TC_CLASSDEF"),
      RefTo(Id("R", "f"), <<Id("P", "t")>>),
      [Expr(Id("V", "s"), "AMT_VALUESET", "ASN_BASIC_INTEGER") EXCEPT
          !.constraints = ContainerNode("ACT_CA_UNI",
              <<ValueNode(IntegerValue(1)), ValueNode(IntegerValue(2))>>)],
      Expr(Id("V", "t"), "AMT_VALUESET", "A1TC_REFERENCE"),
      Expr(Id("O", "b"), "AMT_OBJECT", "A1TC_INSTANCE"),
      Expr(NULLSTR, "AMT_TYPE", "ASN_CONSTR_SEQUENCE"),
      [Expr(Id("G", "n"), "AMT_TYPE", "ASN_CONSTR_SEQUENCE") EXCEPT
          !.lhs_params = [params |-> << [governor |-> <<>>, argument |-> <<"T">>],
                                        [governor |-> Id("I", "d"),
                                         argument |-> <<"v">>] >>],
          !.members = SubSeq(Members, 1, 2)] }

SpecializedExprs ==
    { [Expr(Id("T", "p"), "AMT_TYPE", "ASN_CONSTR_SEQUENCE") EXCEPT
          !.specializations =
              << [Expr(Id("T", "p"), "AMT_TYPE", "ASN_CONSTR_SEQUENCE") EXCEPT
                     !.spec_index = 0, !.members = SubSeq(Members, 1, 1)],
                 [Expr(Id("T", "p"), "AMT_TYPE", "ASN_CONSTR_SEQUENCE") EXCEPT
                     !.spec_index = 1, !.members = SubSeq(Members, 8, 8)] >>],
      [Expr(Id("T", "q"), "AMT_TYPE", "ASN_BASIC_INTEGER") EXCEPT
          !.specializations =
              << [Expr(Id("k", "h"), "AMT_VALUE", "ASN_BASIC_BOOLEAN") EXCEPT
                     !.value = PlainValue("ATV_TRUE")],
                 Expr(Id("F", "l"), "AMT_TYPE", "ASN_BASIC_BOOLEAN") >>] }

ExprSet ==
    EnumExprs \cup ValueExprs \cup ScalarExprs \cup ConstructedExprs
    \cup OtherExprs \cup SpecializedExprs

\* the expressions that may stand anywhere in the module; one expression of
\* the module ranges over all of ExprSet
CoreExprs ==
    { Enumerated(Id("C", "l"), <<Univerval(Id("r", "d"), 2)>>),
      Enumerated(Id("C", "l"),
                 <<Univerval(Id("r", "d"), 0), Univerval(Id("g", "n"), -1)>>),
      [Expr(Id("k", "a"), "AMT_VALUE", "ASN_BASIC_INTEGER") EXCEPT
          !.value = IntegerValue(5)],
      IntegerType(RangeNode("ACT_EL_RANGE", IntegerValue(0), IntegerValue(120))),
      [Expr(Id("S", "q"), "AMT_TYPE", "ASN_CONSTR_SEQUENCE") EXCEPT
          !.members = SubSeq(Members, 1, 4)],
      [Expr(Id("S", "h"), "AMT_TYPE", "ASN_CONSTR_CHOICE") EXCEPT
          !.members = <<RefTo(Id("c", "i"), <<Id("C", "i")>>),
                        RefTo(Id("s", "q"), <<Id("S", "q")>>)>>],
      Expr(Id("O", "b"), "AMT_OBJECT", "A1TC_INSTANCE") }

ModuleSet ==
    { [ modulename |-> Id("M", "d"), srcfilename |-> <<"m", ".", "a">>,
        oid |-> NULL, comments |-> <<>>, import |-> <<>> ],
      [ modulename |-> Id("M", "d"), srcfilename |-> <<"d", "/", "M", ".", "a">>,
        oid |-> [arcs |-> << [name |-> Id("i", "s"), number |-> 1],
                             [name |-> NULLSTR, number |-> 2] >>],
        comments |-> <<"c">>,
        import |-> << [path |-> Id("I", "a"), oid |-> NULL],
                      [path |-> Id("I", "b"),
                       oid |-> [arcs |-> <<[name |-> NULLSTR, number |-> 3]>>]] >> ] }

(***************************************************************************)
(* The translator: the expressions of a module are lowered one by one,     *)
(* then the proto model is emitted.  out[m] is the output of the run in    *)
(* which the emitter's print_method_ is m; the lowerer's own print_method_ *)
(* is a separate static that nothing assigns, so it stays PRINT_STDOUT.    *)
(***************************************************************************)
Init ==
    /\ TranslatorIdle
    /\ call = NoCall
    /\ frame = NoFrame

\* printf and the lowerer's safe_fwrite: stdout, whatever the emitter's method
ToStdout(o, lines) ==
    [m \in DOMAIN o |-> [o[m] EXCEPT !.stdout = @ \o lines]]

\* safe_printf of the emitter (asn1protooutput.c:48-66)
safe_printf(o, lines) ==
    [m \in DOMAIN o |->
        IF m = "PRINT_STDOUT" THEN [o[m] EXCEPT !.stdout = @ \o lines]
        ELSE [o[m] EXCEPT !.buffer = @ \o lines]]

Lower(expr) ==
    /\ phase = "lowering"
    /\ Len(input) < MaxExprs
    /\ expr \in CoreExprs \/ \A k \in 1..Len(input) : input[k] \in CoreExprs
    /\ LET r == asn1print_expr_proto(expr, LowerState(message, protoenum), {})
       IN  /\ message' = r.message
           /\ protoenum' = r.protoenum
           /\ ret' = r.ret
           /\ out' = ToStdout(out, r.printf
                        \o [k \in 1..Len(r.fwrite) |->
                               Line("fwrite", r.fwrite[k], 0, 0)])
           /\ phase' \in (IF r.oob THEN {"lowering", "aborted"} ELSE {"lowering"})
    /\ input' = Append(input, expr)
    /\ UNCHANGED <<module, call, frame>>

\* the names proto_print_msg hands to toSnakeCaseDup, with the case asked for
SnakeCalls(m, msgs, enums) ==
    {<<m.srcfilename, SNAKECASE_LOWER>>}
    \cup {<<enums[e].name, SNAKECASE_UPPER>> : e \in 1..Len(enums)}
    \cup UNION {{<<enums[e].def[d].name, SNAKECASE_UPPER>> :
                    d \in 1..Len(enums[e].def)} : e \in 1..Len(enums)}
    \cup UNION {{<<msgs[k].entry[j].name, SNAKECASE_LOWER>> :
                    j \in 1..Len(msgs[k].entry)} : k \in 1..Len(msgs)}
    \cup UNION {{<<msgs[k].oneof[o].name, SNAKECASE_LOWER>> :
                    o \in 1..Len(msgs[k].oneof)} : k \in 1..Len(msgs)}
    \cup UNION {UNION {{<<msgs[k].oneof[o].entry[j].name, SNAKECASE_LOWER>> :
                           j \in 1..Len(msgs[k].oneof[o].entry)} :
                       o \in 1..Len(msgs[k].oneof)} : k \in 1..Len(msgs)}

\* proto_print_msg on the lowered model.  When one of its toSnakeCaseDup calls
\* stores beyond its block the run may also be stopped there; what had been
\* handed to the sink is then not observed.
Emit(m) ==
    /\ phase = "lowering"
    /\ module' = m
    /\ \/ /\ out' = safe_printf(out, proto_print_msg(m, message, protoenum, 0))
          /\ phase' = "emitted"
       \/ /\ \E c \in SnakeCalls(m, message, protoenum) :
                 SnakeOverflows(SnakeStart(c[1]), c[1], c[2])
          /\ out' = out
          /\ phase' = "aborted"
    /\ UNCHANGED <<input, message, protoenum, ret, call, frame>>

Next ==
    \/ \E expr \in ExprSet : Lower(expr)
    \/ \E m \in ModuleSet : Emit(m)

Spec == Init /\ [][Next]_vars

(***************************************************************************)
(* Properties.                                                             *)
(***************************************************************************)
\* what the emitter handed to safe_printf, read from the buffer of the run in
\* which the emitter's method is GLOBAL_BUFFER
EmitterOutput == out["GLOBAL_BUFFER"].buffer

LinesOf(kinds, owner) ==
    SelectSeq(EmitterOutput, LAMBDA l : l.kind \in kinds /\ l.owner = owner)

Positions(kinds) == {k \in 1..Len(EmitterOutput) : EmitterOutput[k].kind \in kinds}

\* C1: every emitted enum has exactly one entry line whose value is 0: the
\* auto-generated UNDEFINED line when no entry has the explicit index 0, the
\* entry with the explicit index 0 otherwise.
C1_ExactlyOneZero ==
    phase = "emitted" =>
        \A e \in 1..Len(protoenum) :
            Cardinality({k \in 1..Len(EmitterOutput) :
                            /\ EmitterOutput[k].kind = "enum_entry"
                            /\ EmitterOutput[k].owner = e
                            /\ EmitterOutput[k].num = 0}) = 1

RECURSIVE OneofFields(_)
OneofFields(oneofs) ==
    IF oneofs = <<>> THEN <<>>
    ELSE oneofs[1].entry \o OneofFields(Tail(oneofs))

\* C2: inside every emitted message the field numbers printed for its direct
\* fields and for the fields of its oneof are 1, 2, ..., n, in the order of
\* the fields in the model.
C2_FieldNumbers ==
    phase = "emitted" =>
        \A o \in 1..Len(message) :
            LET printed == LinesOf({"field"}, o)
                fields  == message[o].entry \o OneofFields(message[o].oneof)
            IN  /\ Len(printed) = Len(fields)
                /\ \A k \in 1..Len(printed) :
                      /\ printed[k].num = k
                      /\ printed[k].name = fields[k].name

C2_Witness ==
    /\ phase = "emitted"
    /\ \E o \in 1..Len(message) : Len(message[o].entry) >= 2
    /\ \E o \in 1..Len(message) :
          /\ Len(message[o].oneof) = 1
          /\ Len(message[o].oneof[1].entry) >= 2

\* C3: the bytes on stdout of the run whose method is PRINT_STDOUT are the
\* bytes in the buffer of the run of the same module whose method is
\* GLOBAL_BUFFER, error comments and CONSTRAINED BY text included.
C3_SameBytes ==
    phase = "emitted" => out["PRINT_STDOUT"].stdout = out["GLOBAL_BUFFER"].buffer

PascalReturned == call.fn = "toPascalCaseDup" /\ frame.status = "returned"

PascalResult == CStr(frame.pascalCaseDup)

C4_Up(c) == IF c = "a" THEN "A" ELSE c

C4_Separators(s) == {k \in 1..Len(s) : s[k] \in {"-", "&", "_"}}

SnakeReturned == call.fn = "toSnakeCaseDup" /\ frame.status = "returned"

\* C5: toSnakeCaseDup of e2AP-PDU returns e2_ap_pdu with SNAKECASE_LOWER and
\* E2_AP_PDU with SNAKECASE_UPPER.
C5_SnakeExample ==
    (SnakeReturned /\ call.pass = 1 /\ call.orig = E2AP_PDU) =>
        Str(CStr(frame.snakeCase)) =
            (IF call.tocase = SNAKECASE_LOWER THEN "e2_ap_pdu" ELSE "E2_AP_PDU")

\* C6: toSnakeCaseDup with SNAKECASE_LOWER is idempotent: applied to its own
\* result it returns that result.
C6_SnakeLowerIdempotent ==
    (SnakeReturned /\ call.pass = 2 /\ call.tocase = SNAKECASE_LOWER) =>
        CStr(frame.snakeCase) = call.mixedCase

\* C7: the scan index of toPascalCaseDup never moves past the position of the
\* terminator of its argument.
C7_ScanInBounds ==
    call.fn = "toPascalCaseDup" => frame.i <= Len(call.mixedCase)

EnumKinds == {"enum_comment", "enum", "enum_entry", "enum_end"}

MessageKinds ==
    {"message_comment", "message", "field", "indent", "oneof_comment", "oneof",
     "oneof_end", "message_end"}

Before(P, Q) == \A p \in P, q \in Q : p < q

\* C8: the emitter's output is the header comment, the syntax line, the
\* package line, one import line per import of the module in order, exactly
\* one validate import after them, every enum in model order, then every
\* message in model order.
C8_SectionOrder ==
    phase = "emitted" =>
        LET imports == SelectSeq(EmitterOutput, LAMBDA l : l.kind = "import")
            enums   == SelectSeq(EmitterOutput, LAMBDA l : l.kind = "enum")
            msgs    == SelectSeq(EmitterOutput, LAMBDA l : l.kind = "message")
        IN  /\ Cardinality(Positions({"syntax"})) = 1
            /\ Cardinality(Positions({"package"})) = 1
            /\ Cardinality(Positions({"validate"})) = 1
            /\ Positions({"header"}) # {}
            /\ Before(Positions({"header"}), Positions({"syntax"}))
            /\ Before(Positions({"syntax"}), Positions({"package"}))
            /\ Before(Positions({"package"}), Positions({"import", "validate"}))
            /\ Before(Positions({"import"}), Positions({"validate"}))
            /\ Before(Positions({"validate"}), Positions(EnumKinds \cup MessageKinds))
            /\ Before(Positions(EnumKinds), Positions(MessageKinds))
            /\ Len(imports) = Len(module.import)
            /\ \A k \in 1..Len(imports) : imports[k].owner = k
            /\ Len(enums) = Len(protoenum)
            /\ \A k \in 1..Len(enums) : enums[k].owner = k
            /\ Len(msgs) = Len(message)
            /\ \A k \in 1..Len(msgs) : msgs[k].owner = k
            /\ EmitterOutput[Len(EmitterOutput)].kind \in
                   (EnumKinds \cup MessageKinds \cup {"validate"})

C8_Witness ==
    /\ phase = "emitted"
    /\ Len(module.import) = 2
    /\ Len(protoenum) >= 1
    /\ Len(message) >= 1

\* the last expression lowered is an INTEGER type whose constraint is a range
\* of the given kinds between two integers
C9_RangeLowered(kinds) ==
    /\ input # <<>>
    /\ LET e == input[Len(input)]
       IN  /\ e.meta_type = "AMT_TYPE"
           /\ e.expr_type = "ASN_BASIC_INTEGER"
           /\ e.specializations = <<>>
           /\ e.constraints # NULL
           /\ e.constraints.type \in kinds
           /\ e.constraints.range_start.type = "ATV_INTEGER"
           /\ e.constraints.range_stop.type = "ATV_INTEGER"

C9_Text(n) == IF n = 0 THEN "0" ELSE IF n = 120 THEN "120" ELSE "?"

\* the rule of the field of the last message, against "int32 = {<l><lo>, <r><hi>}"
C9_RuleIs(l, r) ==
    LET e == input[Len(input)]
    IN  /\ message # <<>>
        /\ message[Len(message)].entry[1].rules =
               "int32 = {" \o l \o C9_Text(e.constraints.range_start.v_integer)
               \o ", " \o r \o C9_Text(e.constraints.range_stop.v_integer) \o "}"

\* C9 as stated: RANGE and RL_RANGE print gte/lte, LL_RANGE and UL_RANGE gt/lt.
C9_RangeKeywordsAsStated ==
    /\ C9_RangeLowered({"ACT_EL_RANGE", "ACT_EL_RLRANGE"}) =>
           C9_RuleIs("gte: ", "lte: ")
    /\ C9_RangeLowered({"ACT_EL_LLRANGE", "ACT_EL_ULRANGE"}) =>
           C9_RuleIs("gt: ", "lt: ")

\* C9: in numeric context with both endpoints printed, RANGE gives gte/lte,
\* RL_RANGE gte/lt, LL_RANGE gt/lte and UL_RANGE gt/lt; INTEGER (0..120) gives
\* the rule int32 = {gte: 0, lte: 120}.
C9_RangeKeywords ==
    /\ C9_RangeLowered({"ACT_EL_RANGE"}) => C9_RuleIs("gte: ", "lte: ")
    /\ C9_RangeLowered({"ACT_EL_RLRANGE"}) => C9_RuleIs("gte: ", "lt: ")
    /\ C9_RangeLowered({"ACT_EL_LLRANGE"}) => C9_RuleIs("gt: ", "lte: ")
    /\ C9_RangeLowered({"ACT_EL_ULRANGE"}) => C9_RuleIs("gt: ", "lt: ")
    /\ (C9_RangeLowered({"ACT_EL_RANGE"})
        /\ input[Len(input)].constraints.range_start.v_integer = 0
        /\ input[Len(input)].constraints.range_stop.v_integer = 120) =>
           message[Len(message)].entry[1].rules = "int32 = {gte: 0, lte: 120}"

C9_Witness ==
    /\ C9_RangeLowered({"ACT_EL_RLRANGE"})
    /\ message # <<>>
    /\ message[Len(message)].entry[1].rules = "int32 = {gte: 0, lt: 120}"

RECURSIVE C10_Doubled(_)
C10_Doubled(b) ==
    IF b = <<>> THEN ""
    ELSE (IF b[1] = "\"" THEN "\"\"" ELSE b[1]) \o C10_Doubled(Tail(b))

\* C10: lowering a VALUE REFERENCE whose value is a string gives a message
\* with the single field of type string and the rule string.const = "<v>",
\* <v> being the value with every double quote doubled.
C10_StringConst ==
    (/\ input # <<>>
     /\ input[Len(input)].specializations = <<>>
     /\ input[Len(input)].meta_type = "AMT_VALUE"
     /\ input[Len(input)].expr_type = "A1TC_REFERENCE"
     /\ input[Len(input)].value.type = "ATV_STRING") =>
        /\ message # <<>>
        /\ Len(message[Len(message)].entry) = 1
        /\ message[Len(message)].entry[1].type = T_string
        /\ message[Len(message)].entry[1].rules =
               "string.const = \"" \o C10_Doubled(input[Len(input)].value.buf)
               \o "\""

\* C11: proto_value_print of a STRING value returns the whole content of the
\* string between two double quotes, every embedded double quote doubled; a
\* string without a double quote comes back unchanged between the quotes.
C11_WholeString ==
    (call.fn = "proto_value_print" /\ frame.status = "returned") =>
        frame.result = "\"" \o C10_Doubled(call.orig) \o "\""

\* a call of asn1print_expr_proto has just lowered an identified expression
\* without specializations of the given meta type and one of the given types
JustLowered(metas, types) ==
    /\ Len(input') = Len(input) + 1
    /\ input'[Len(input')].Identifier # NULLSTR
    /\ input'[Len(input')].specializations = <<>>
    /\ input'[Len(input')].meta_type \in metas
    /\ input'[Len(input')].expr_type \in types

\* the members that are neither an enum literal nor the extension marker
StructuralMembers(members) ==
    SelectSeq(members,
              LAMBDA se : se.expr_type \notin {"A1TC_UNIVERVAL", "A1TC_EXTENSIBLE"})

C12_ChoiceLowered ==
    JustLowered({"AMT_TYPE"}, {"ASN_CONSTR_CHOICE"}) =>
        LET e  == input'[Len(input')]
            m  == message'[Len(message')]
            ms == StructuralMembers(e.members)
        IN  /\ Len(message') = Len(message) + 1
            /\ SubSeq(message', 1, Len(message)) = message
            /\ protoenum' = protoenum
            /\ m.name = e.Identifier
            /\ m.entry = <<>>
            /\ Len(m.oneof) = 1
            /\ m.oneof[1].name = e.Identifier
            /\ Len(m.oneof[1].entry) = Len(ms)
            /\ \A k \in 1..Len(ms) : m.oneof[1].entry[k].name = ms[k].Identifier

C12_ChoiceEmitted ==
    phase = "emitted" =>
        \A o \in 1..Len(message) :
            (/\ message[o].name = <<"S", "h">>
             /\ Len(message[o].oneof) = 1
             /\ [k \in 1..Len(message[o].oneof[1].entry) |->
                    <<message[o].oneof[1].entry[k].name,
                      message[o].oneof[1].entry[k].type>>]
                = << <<(<<"c", "i">>), (<<"C", "i">>)>>,
                     <<(<<"s", "q">>), (<<"S", "q">>)>> >>) =>
                [k \in 1..4 |-> LinesOf({"oneof", "field", "oneof_end"}, o)[k].text]
                = << "    oneof sh {\n", "        Ci ci = 1;\n",
                     "        Sq sq = 2;\n", "    }\n" >>

\* C12: lowering a CHOICE type appends exactly one message, with no direct
\* field and exactly one oneof named with the identifier of the CHOICE, whose
\* fields are the members in declaration order; Sh ::= CHOICE { ci Ci, sq Sq }
\* is emitted as oneof sh { Ci ci = 1; Sq sq = 2; }.
C12_Choice == [][C12_ChoiceLowered]_vars /\ [](C12_ChoiceEmitted)

C12_Witness ==
    /\ phase = "emitted"
    /\ input # <<>>
    /\ input[Len(input)].expr_type = "ASN_CONSTR_CHOICE"
    /\ message # <<>>
    /\ Len(message[Len(message)].oneof) = 1
    /\ Len(message[Len(message)].oneof[1].entry) = 2
    /\ \E k \in 1..Len(EmitterOutput) :
          EmitterOutput[k].text = "        Sq sq = 2;\n"

\* an identified expression in value context whose type the lowerer does not
\* handle
C13_UnhandledValue(e) ==
    /\ e.Identifier # NULLSTR
    /\ e.meta_type = "AMT_VALUE"
    /\ e.expr_type \notin {"ASN_BASIC_ENUMERATED", "ASN_BASIC_INTEGER",
                           "A1TC_REFERENCE"}

\* C13: asn1print_expr_proto returns non-zero only for an expression in value
\* context whose expr_type is none of ENUMERATED, INTEGER and REFERENCE; for
\* every other expression it returns 0 and the translation is not aborted.
C13_ReturnCode ==
    (input # <<>> /\ module = NULL) =>
        LET e == input[Len(input)]
        IN  \/ IF e.specializations = <<>> THEN C13_UnhandledValue(e)
               ELSE \E k \in 1..Len(e.specializations) :
                       C13_UnhandledValue(e.specializations[k])
            \/ ret = 0 /\ phase # "aborted"

\* the expression matches one of the dispatch cases of the lowerer
C14_Listed(e) ==
    \/ e.expr_type = "ASN_BASIC_ENUMERATED"
    \/ e.meta_type = "AMT_VALUE"
       /\ e.expr_type \in {"ASN_BASIC_INTEGER", "A1TC_REFERENCE"}
    \/ e.meta_type = "AMT_VALUESET"
    \/ e.meta_type = "AMT_TYPE"
       /\ e.expr_type \in {"ASN_BASIC_INTEGER", "ASN_STRING_IA5String",
                           "ASN_STRING_BMPString", "ASN_BASIC_BOOLEAN",
                           "ASN_CONSTR_SEQUENCE", "ASN_CONSTR_SEQUENCE_OF",
                           "ASN_CONSTR_CHOICE"}
    \/ e.expr_type = "A1TC_CLASSDEF"
    \/ e.meta_type = "AMT_TYPEREF"

C14_UnlistedLowered ==
    (/\ Len(input') = Len(input) + 1
     /\ input'[Len(input')].Identifier # NULLSTR
     /\ input'[Len(input')].specializations = <<>>
     /\ ~C14_Listed(input'[Len(input')])) =>
        /\ message' = message
        /\ protoenum' = protoenum
        /\ phase' # "aborted"
        /\ \A m \in DOMAIN out :
              LET before == out[m].stdout \o out[m].buffer
                  after  == out'[m].stdout \o out'[m].buffer
              IN  /\ Len(after) > Len(before)
                  /\ after[Len(after)].kind = "error"

\* C14: an identified expression without specializations that matches none
\* of the dispatch cases is logged as an error comment, adds no message and no
\* enum, and does not abort the translation.
C14_UnhandledLogged == [][C14_UnlistedLowered]_vars

\* what lowering one clone on its own appends
C15_Alone(clone) == asn1print_expr_proto(clone, LowerState(<<>>, <<>>), {})

RECURSIVE C15_Messages(_)
C15_Messages(clones) ==
    IF clones = <<>> THEN <<>>
    ELSE C15_Alone(clones[1]).message \o C15_Messages(Tail(clones))

RECURSIVE C15_Enums(_)
C15_Enums(clones) ==
    IF clones = <<>> THEN <<>>
    ELSE C15_Alone(clones[1]).protoenum \o C15_Enums(Tail(clones))

\* the clones up to and including the first whose lowering returns non-zero
RECURSIVE C15_UntilFailure(_)
C15_UntilFailure(clones) ==
    IF clones = <<>> THEN <<>>
    ELSE IF C15_Alone(clones[1]).ret # 0 THEN <<clones[1]>>
    ELSE <<clones[1]>> \o C15_UntilFailure(Tail(clones))

C15_TemplateLowered ==
    Len(input') = Len(input) + 1 /\ input'[Len(input')].specializations # <<>>

\* C15 as stated: every clone of the list is lowered.
C15_EveryCloneLowered ==
    [][C15_TemplateLowered =>
          /\ message' = message \o C15_Messages(input'[Len(input')].specializations)
          /\ protoenum' = protoenum \o C15_Enums(input'[Len(input')].specializations)
      ]_vars

\* C15: an expression with specializations is lowered by lowering its clones
\* in list order up to the first clone whose lowering returns non-zero, which
\* is returned at once; the template itself adds no message and no enum.
C15_ClonesLowered ==
    [][C15_TemplateLowered =>
          LET done == C15_UntilFailure(input'[Len(input')].specializations)
          IN  /\ message' = message \o C15_Messages(done)
              /\ protoenum' = protoenum \o C15_Enums(done)
              /\ ret' = C15_Alone(done[Len(done)]).ret
      ]_vars

C15_Witness ==
    /\ input # <<>>
    /\ Len(input[Len(input)].specializations) = 2
    /\ Len(message) >= 2
    /\ message[Len(message)].name = input[Len(input)].specializations[2].Identifier
    /\ message[Len(message)].spec_index = 1
    /\ message[Len(message) - 1].spec_index = 0

C16_FieldsOf(m) == m.entry \o OneofFields(m.oneof)

C16_ChildrenLowered ==
    JustLowered({"AMT_TYPE"}, {"ASN_CONSTR_SEQUENCE", "ASN_CONSTR_SEQUENCE_OF",
                               "ASN_CONSTR_CHOICE"}) =>
        LET members == input'[Len(input')].members
            kept    == {k \in 1..Len(members) :
                           members[k].expr_type \notin
                               {"A1TC_UNIVERVAL", "A1TC_EXTENSIBLE"}}
            fields  == C16_FieldsOf(message'[Len(message')])
        IN  /\ Len(message') = Len(message) + 1
            /\ Len(fields) = Cardinality(kept)
            /\ \A k \in kept :
                  fields[Cardinality({j \in kept : j <= k})].name
                      = members[k].Identifier
            /\ \A k \in (1..Len(members)) \ kept :
                  \A j \in 1..Len(fields) : fields[j].name # members[k].Identifier

\* C16: lowering the children of a SEQUENCE, SEQUENCE OF or CHOICE appends
\* one field per member that is neither a UNIVERVAL nor the EXTENSIBLE marker,
\* in declaration order; a UNIVERVAL or EXTENSIBLE member never becomes a
\* field.
C16_Children == [][C16_ChildrenLowered]_vars

C16_Witness ==
    /\ input # <<>>
    /\ input[Len(input)].expr_type = "ASN_CONSTR_SEQUENCE"
    /\ input[Len(input)].specializations = <<>>
    /\ \E k \in 1..Len(input[Len(input)].members) :
          input[Len(input)].members[k].expr_type = "A1TC_UNIVERVAL"
    /\ \E k \in 1..Len(input[Len(input)].members) :
          input[Len(input)].members[k].expr_type = "A1TC_EXTENSIBLE"
    /\ message # <<>>
    /\ Len(message[Len(message)].entry) = 2

C17_CallAppends ==
    Len(input') = Len(input) + 1 =>
        /\ Len(message') >= Len(message)
        /\ SubSeq(message', 1, Len(message)) = message
        /\ Len(protoenum') >= Len(protoenum)
        /\ SubSeq(protoenum', 1, Len(protoenum)) = protoenum

\* C17: a call of the lowerer only appends to the message list and to the
\* enum list: every message and enum that was in the model before the call,
\* with its fields, oneofs and entries, is unchanged after it and keeps its
\* position.
C17_AppendOnly == [][C17_CallAppends]_vars

C17_Witness ==
    /\ Len(input) = 2
    /\ Len(message) + Len(protoenum) >= 2
    /\ \E o \in 1..Len(message) : Len(C16_FieldsOf(message[o])) >= 2

\* the last expression lowered is a top-level type of one of the given kinds
\* without specializations, and ct, its range constraint, runs between
\* endpoints of the given kinds
C18_Lowered(types, ct, lo, hi) ==
    /\ input # <<>>
    /\ input[Len(input)].meta_type = "AMT_TYPE"
    /\ input[Len(input)].expr_type \in types
    /\ input[Len(input)].specializations = <<>>
    /\ ct.type = "ACT_EL_RANGE"
    /\ ct.range_start.type = lo
    /\ ct.range_stop.type = hi

C18_Rule == message[Len(message)].entry[1].rules

\* C18: a range whose right endpoint prints as the empty string gives the
\* left bound only; MAX prints as 2147483647 under APF_INT32_VALUE and as the
\* empty string otherwise, MIN prints as 0: INTEGER (5..MAX) gives
\* int32 = {gte: 5, lte: 2147483647}, INTEGER (MIN..5) gives
\* int32 = {gte: 0, lte: 5}, and a string with SIZE (1..MAX) gives
\* string = {min_len: 1}.
C18_OpenRange ==
    /\ (/\ input # <<>>
        /\ input[Len(input)].constraints # NULL
        /\ C18_Lowered({"ASN_BASIC_INTEGER"}, input[Len(input)].constraints,
                       "ATV_INTEGER", "ATV_MAX")
        /\ input[Len(input)].constraints.range_start.v_integer = 5) =>
           C18_Rule = "int32 = {gte: 5, lte: 2147483647}"
    /\ (/\ input # <<>>
        /\ input[Len(input)].constraints # NULL
        /\ C18_Lowered({"ASN_BASIC_INTEGER"}, input[Len(input)].constraints,
                       "ATV_MIN", "ATV_INTEGER")
        /\ input[Len(input)].constraints.range_stop.v_integer = 5) =>
           C18_Rule = "int32 = {gte: 0, lte: 5}"
    /\ (/\ input # <<>>
        /\ input[Len(input)].constraints # NULL
        /\ input[Len(input)].constraints.type = "ACT_CT_SIZE"
        /\ C18_Lowered({"ASN_STRING_IA5String", "ASN_STRING_BMPString"},
                       input[Len(input)].constraints.elements[1],
                       "ATV_INTEGER", "ATV_MAX")
        /\ input[Len(input)].constraints.elements[1].range_start.v_integer = 1) =>
           C18_Rule = "string = {min_len: 1}"

C18_Witness ==
    /\ input # <<>>
    /\ input[Len(input)].constraints # NULL
    /\ input[Len(input)].constraints.type = "ACT_CT_SIZE"
    /\ C18_Lowered({"ASN_STRING_IA5String", "ASN_STRING_BMPString"},
                   input[Len(input)].constraints.elements[1],
                   "ATV_INTEGER", "ATV_MAX")
    /\ message # <<>>
    /\ C18_Rule = "string = {min_len: 1}"

\* C19: in toSnakeCaseDup and in escapeQuotesDup every store into the result
\* buffer, the final terminator included, is at an index below the capacity
\* the buffer has at that moment.
C19_StoresInBounds ==
    call.fn \in {"toSnakeCaseDup", "escapeQuotesDup"} => ~frame.oob

====
